---- MODULE Spec2Model ----
(***************************************************************************)
(* Model of the web-scraper MCP server (mcp-servers/web-scraper/server.js).*)
(*                                                                         *)
(* A state of the model is a set of tool-call requests, each suspended at  *)
(* one `await` of the handler.  One action resumes one request from its    *)
(* await with the outcome the browser library gives (returned or raised)   *)
(* and runs the synchronous code up to the next await, as the JavaScript   *)
(* event loop does.  `calls` is the log of the library calls a request has *)
(* issued, in order, each with its arguments and its outcome.              *)
(***************************************************************************)
EXTENDS Integers, Sequences, FiniteSets, TLC

\* ---------------------------------------------------------------- bounds
MaxStrLen == 2
MaxActions == 2
MaxTime == 1

\* ------------------------------------------------------- optional values
\* A JavaScript value that may be undefined / null: <<>> or <<v>>.
None == <<>>
Some(x) == <<x>>
IsSome(o) == o # <<>>
Val(o) == o[1]

Set(f, r, v) == [f EXCEPT ![r] = v]

\* ------------------------------------------------------------ strings
\* Strings the code inspects character by character are sequences of
\* one-character strings.
Digits == {"0", "1"}
Chars == Digits \cup {"a"}

StringsUpTo(n) == UNION {[1..k -> Chars] : k \in 0..n}
Strings == StringsUpTo(MaxStrLen)

\* The locators an element of a page can match.
SelA == <<"a">>
SelB == <<"a", "a">>
Selectors == {SelA, SelB}
\* The body of a page: every page has one.
Body == <<"b", "o", "d", "y">>
DomChoices == SUBSET Selectors

DigitValue(c) == IF c = "1" THEN 1 ELSE 0

\* Variant: the pattern without its anchors, /\d+/.
ContainsDigit(s) == \E i \in 1..Len(s) : s[i] \in Digits

\* waitFor.match(/^\d+$/): one or more characters, every one a digit.
IsDigitString(s) == Len(s) > 0 /\ \A i \in 1..Len(s) : s[i] \in Digits

\* parseInt(waitFor) of a digit string: its decimal value.
RECURSIVE ParseInt(_)
ParseInt(s) ==
  IF Len(s) = 0 THEN 0
  ELSE 10 * ParseInt(SubSeq(s, 1, Len(s) - 1)) + DigitValue(s[Len(s)])

\* -------------------------------------------------------- program constants
DefaultActionTimeout == 5000
ScrapeWaitTimeout == 10000
DefaultWaitTimeout == 10000
CallerTimeout == 100

EngineKinds == {"chromium", "firefox", "webkit"}
DefaultEngine == "chromium"
ToolNames == {"scrape_page", "test_react_app", "get_page_info", "wait_for_element"}
AwaitedKinds == {"click", "fill", "wait", "screenshot", "getText", "getAttribute"}

Reqs == {1, 2}

\* ------------------------------------------------------------- inputs
Url == "http://app"

NoArgs ==
  [url |-> Url, selector |-> None, browser |-> None, waitFor |-> None,
   screenshot |-> FALSE, actions |-> None, includePerformance |-> None,
   timeout |-> None]

BrowserInputs == {None, Some("firefox"), Some("netscape")}

Action(t, s, v, to) == [type |-> t, selector |-> s, value |-> v, timeout |-> to]

\* The elements an action list is drawn from: every kind of the schema, a
\* kind outside it, a fill without its value, and null.
ActionInputs ==
  {Some(Action("click", Some(s), None, to)) :
      s \in Selectors, to \in {None, Some(CallerTimeout)}}
  \cup {Some(Action("fill", Some(SelA), v, None)) : v \in {None, Some("alice")}}
  \cup {Some(Action("wait", Some(SelB), None, Some(CallerTimeout))),
        Some(Action("screenshot", None, None, None)),
        Some(Action("getText", Some(SelA), None, Some(CallerTimeout))),
        Some(Action("getAttribute", Some(SelA), Some("disabled"), None)),
        Some(Action("hover", Some(SelA), None, None)),
        None}

ActionLists == UNION {[1..k -> ActionInputs] : k \in 0..MaxActions}

ScrapeInputs ==
  {[NoArgs EXCEPT !.selector = s, !.browser = b, !.waitFor = w, !.screenshot = sh] :
      s \in {None, Some(SelA)}, b \in {None, Some("netscape")},
      w \in {None} \cup {Some(x) : x \in Strings}, sh \in BOOLEAN}

TestInputs ==
  {[NoArgs EXCEPT !.actions = a, !.browser = b] :
      a \in {None} \cup {Some(l) : l \in ActionLists}, b \in BrowserInputs}

InfoInputs ==
  {[NoArgs EXCEPT !.browser = b, !.includePerformance = p] :
      b \in {None, Some("netscape")}, p \in {None, Some(FALSE), Some(TRUE)}}

WaitInputs ==
  {[NoArgs EXCEPT !.selector = s, !.timeout = to, !.browser = b] :
      s \in {None} \cup {Some(x) : x \in Strings},
      to \in {None, Some(CallerTimeout)}, b \in {None, Some("netscape")}}

\* request.params.arguments may be missing altogether.
ArgsOf(name) ==
  {None} \cup
  {Some(a) : a \in CASE name = "scrape_page" -> ScrapeInputs
                     [] name = "test_react_app" -> TestInputs
                     [] name = "get_page_info" -> InfoInputs
                     [] name = "wait_for_element" -> WaitInputs
                     [] OTHER -> {NoArgs}}

\* -------------------------------------------------------------- state
VARIABLES
  pc,        \* pc[r]: the await request r is suspended at ("idle" before the call, "done" after the response)
  req,       \* req[r]: the tool call, [name, args]
  browser,   \* browser[r]: "none", "open" or "closed": the browser process launched for r
  dom,       \* dom[r]: the locators that match an element of r's page
  idx,       \* idx[r]: position in the action list of the action being executed
  results,   \* results[r]: the `results` array of testReactApp
  ret,       \* ret[r]: the value the operation's try block returns (pending while finally runs)
  exc,       \* exc[r]: the error the operation's try block raised (pending while finally runs)
  response,  \* response[r]: what the tool-call handler returned to the caller
  faulted,   \* faulted[r]: a raw exception escaped the tool-call handler
  calls,     \* calls[r]: the browser-library calls r issued, in order
  t0,        \* t0[r]: the startTime local of getPageInfo / waitForElement
  elapsed,   \* elapsed[r]: the loadTime / waitTime local
  now,       \* the last value Date.now() returned
  writes     \* the paths handed to writeFileSync, in order

vars == <<pc, req, browser, dom, idx, results, ret, exc, response, faulted, calls,
          t0, elapsed, now, writes>>

\* ------------------------------------------------------- report lines
\* One line of text of a report.  The code builds it by string
\* interpolation; the model keeps the interpolated parts apart.
Line(m, w, ty, s, v, d, st) ==
  [marker |-> m, what |-> w, type |-> ty, selector |-> s, value |-> v,
   detail |-> d, stamp |-> st]

NavLine(url) == Line("ok", "Navigated to", "", None, None, url, None)
UnknownLine(ty) == Line("fail", "Unknown action type", ty, None, None, "", None)
\* Variant: the catch pushes its line under the success marker.
FailedLineAsSuccess(act, msg) ==
  Line("ok", "Failed", act.type, act.selector, None, msg, None)

FailedLine(act, msg) ==
  Line("fail", "Failed", act.type, act.selector, None, msg, None)

\* The page's answers, as the browser gives them.
TextOf(s) == "text"
AttrOf(s, a) == "attr"

SuccessLine(act, path) ==
  CASE act.type = "click" ->
         Line("ok", "Clicked", "", act.selector, None, "", None)
    [] act.type = "fill" ->
         Line("ok", "Filled", "", act.selector, act.value, "", None)
    [] act.type = "wait" ->
         Line("ok", "Waited for", "", act.selector, None, "", None)
    [] act.type = "screenshot" ->
         Line("ok", "Screenshot saved", "", None, None, path.dir, Some(path.t))
    [] act.type = "getText" ->
         Line("ok", "Text from", "", act.selector, None, TextOf(act.selector), None)
    [] act.type = "getAttribute" ->
         Line("ok", "Attribute", "", act.selector, act.value,
              AttrOf(act.selector, act.value), None)

\* { content: [{ type: 'text', text: ... }, ...] } and the handler's error report.
TextItem(title, lines) == [type |-> "text", title |-> title, lines |-> lines]
Report(items) == [isError |-> FALSE, content |-> items]
ErrorReport(msg) ==
  [isError |-> TRUE,
   content |-> <<TextItem("Error", <<Line("fail", "Error", "", None, None, msg, None)>>)>>]
TestReport(res) == Report(<<TextItem("React App Test Results", res)>>)

\* ------------------------------------------------------ library calls
Call(fn, s, v, ms) == [fn |-> fn, sel |-> s, val |-> v, ms |-> ms, status |-> "pending"]

Last(q) == q[Len(q)]
Settled(q, st) == [q EXCEPT ![Len(q)].status = st]

ErrMsg(fn) ==
  CASE fn = "launch" -> "browser could not be started"
    [] fn = "newPage" -> "page could not be created"
    [] fn = "goto" -> "navigation failed"
    [] fn = "close" -> "close failed"
    [] fn = "screenshot" -> "screenshot failed"
    [] fn \in {"click", "fill", "waitForSelector", "textContent", "getAttribute"} ->
         "Timeout exceeded"
    [] OTHER -> "page operation failed"

\* What the library can answer to a pending call against a page whose
\* elements match the locators d.  An element-targeting call raises at its
\* deadline when nothing matches its locator, and when an element matches
\* it returns, or raises all the same (the element is not actionable, the
\* page went away).  A wait returns once its element is there, and may see
\* it appear before the deadline.  A fixed-duration wait only elapses.
Outcomes(c, d) ==
  CASE c.fn = "waitForTimeout" -> {"returned"}
    [] c.fn \in {"click", "textContent"} ->
         IF IsSome(c.sel) /\ Val(c.sel) \in d \cup {Body}
         THEN {"returned", "raised"} ELSE {"raised"}
    [] c.fn \in {"fill", "getAttribute"} ->
         IF IsSome(c.sel) /\ Val(c.sel) \in d /\ IsSome(c.val)
         THEN {"returned", "raised"} ELSE {"raised"}
    [] c.fn = "waitForSelector" ->
         IF IsSome(c.sel) /\ Val(c.sel) \in d THEN {"returned"}
         ELSE IF IsSome(c.sel) /\ Val(c.sel) \in Selectors THEN {"returned", "raised"}
         ELSE {"raised"}
    [] OTHER -> {"returned", "raised"}

\* The page after the call: a wait that returned found its element.
DomAfter(c, d, st) ==
  IF c.fn = "waitForSelector" /\ st = "returned" THEN d \cup {Val(c.sel)} ELSE d

\* ------------------------------------------------- control-flow helpers
\* The locals of request r that the synchronous code between two awaits
\* can change; `call` is the library call it issues next, if any.
Locals(r) ==
  [pc |-> pc[r], call |-> None, results |-> results[r], idx |-> idx[r],
   ret |-> ret[r], exc |-> exc[r], response |-> response[r], faulted |-> faulted[r]]

\* Variant: a handler without its catch lets the error escape.
HandlerRethrow(k, msg) ==
  [k EXCEPT !.pc = "done", !.call = None, !.faulted = TRUE]

\* The catch of the tool-call handler: any error becomes an error report.
HandlerCatch(k, msg) ==
  [k EXCEPT !.pc = "done", !.call = None, !.response = Some(ErrorReport(msg))]

\* `finally { await browser.close(); }` entered with the try block's
\* pending return value or pending error.
Finally(k, retv, excv) ==
  [k EXCEPT !.pc = "close", !.call = Some(Call("close", None, None, None)),
            !.ret = retv, !.exc = excv]

\* Variant: the pending error is dropped after close and the handler ends
\* without an answer.
AfterCloseSwallow(k, st) ==
  IF st = "raised" THEN HandlerCatch(k, ErrMsg("close"))
  ELSE IF IsSome(k.exc) THEN [k EXCEPT !.pc = "done", !.call = None]
  ELSE [k EXCEPT !.pc = "done", !.call = None, !.response = k.ret]

\* After `await browser.close()`: an error of close replaces whatever the
\* try block left pending; otherwise the pending error is rethrown to the
\* handler, or the pending value is returned.
AfterClose(k, st) ==
  IF st = "raised" THEN HandlerCatch(k, ErrMsg("close"))
  ELSE IF IsSome(k.exc) THEN HandlerCatch(k, Val(k.exc))
  ELSE [k EXCEPT !.pc = "done", !.call = None, !.response = k.ret]

\* Variant: an unknown engine name falls back to the default engine.
GetBrowserFallback(k, b) ==
  LET browserType == IF IsSome(b) /\ Val(b) \in EngineKinds THEN Val(b) ELSE DefaultEngine
  IN  [k EXCEPT !.pc = "launch",
                !.call = Some(Call("launch", None, Some(browserType), None))]

\* getBrowser: browsers[browserType].launch(...).  A name outside the
\* table reads undefined, and .launch of undefined raises before any
\* launch is issued.
GetBrowser(k, b) ==
  LET browserType == IF IsSome(b) THEN Val(b) ELSE DefaultEngine
  IN  IF browserType \in EngineKinds
      THEN [k EXCEPT !.pc = "launch",
                     !.call = Some(Call("launch", None, Some(browserType), None))]
      ELSE HandlerCatch(k, "TypeError: cannot read launch of undefined")

\* default: throw new Error(`Unknown tool: ${name}`), caught by the handler.
UnknownToolReport(name) ==
  [isError |-> TRUE,
   content |-> <<TextItem("Error",
                   <<Line("fail", "Error", name, None, None, "Unknown tool", None)>>)>>]

\* Variant: a name outside the switch is served like a known tool.
DispatchAnyName(k, name, a) ==
  IF a = None THEN HandlerCatch(k, "TypeError: cannot destructure arguments")
  ELSE GetBrowser(k, Val(a).browser)

\* The handler's switch on the tool name, and the operation's code up to
\* its first await.  Destructuring missing arguments raises.
Dispatch(k, name, a) ==
  IF name \notin ToolNames
  THEN [k EXCEPT !.pc = "done", !.call = None, !.response = Some(UnknownToolReport(name))]
  ELSE IF a = None THEN HandlerCatch(k, "TypeError: cannot destructure arguments")
  ELSE GetBrowser(k, Val(a).browser)

AfterLaunch(k, st) ==
  IF st = "returned"
  THEN [k EXCEPT !.pc = "newPage", !.call = Some(Call("newPage", None, None, None))]
  ELSE HandlerCatch(k, ErrMsg("launch"))

\* Variant: a failed page creation is swallowed and the operation goes on.
AfterNewPageIgnoresFailure(k, st) ==
  [k EXCEPT !.pc = "goto", !.call = Some(Call("goto", None, Some(Url), None))]

\* browser.newPage() is awaited before the try block is entered.
AfterNewPage(k, st) ==
  IF st = "returned"
  THEN [k EXCEPT !.pc = "goto", !.call = Some(Call("goto", None, Some(Url), None))]
  ELSE HandlerCatch(k, ErrMsg("newPage"))

\* Date.now(): the clock does not go back; it is read up to MaxTime.
ClockReads == {t \in {now, now + 1} : t <= MaxTime}

\* Variant: the outcome list is a field of the server object, one for all
\* requests.
ApplyShared(r, st, k) ==
  /\ pc' = Set(pc, r, k.pc)
  /\ results' = [q \in Reqs |-> k.results]
  /\ idx' = Set(idx, r, k.idx)
  /\ ret' = Set(ret, r, k.ret)
  /\ exc' = Set(exc, r, k.exc)
  /\ response' = Set(response, r, k.response)
  /\ faulted' = Set(faulted, r, k.faulted)
  /\ calls' = Set(calls, r,
        LET q == IF st = "" THEN calls[r] ELSE Settled(calls[r], st)
        IN  IF IsSome(k.call) THEN Append(q, Val(k.call)) ELSE q)

\* The effect of one step of request r on its locals and its call log:
\* the pending call is settled with st, then k.call is issued.
Apply(r, st, k) ==
  /\ pc' = Set(pc, r, k.pc)
  /\ results' = Set(results, r, k.results)
  /\ idx' = Set(idx, r, k.idx)
  /\ ret' = Set(ret, r, k.ret)
  /\ exc' = Set(exc, r, k.exc)
  /\ response' = Set(response, r, k.response)
  /\ faulted' = Set(faulted, r, k.faulted)
  /\ calls' = Set(calls, r,
        LET q == IF st = "" THEN calls[r] ELSE Settled(calls[r], st)
        IN  IF IsSome(k.call) THEN Append(q, Val(k.call)) ELSE q)

Args(r) == Val(req[r].args)

\* ------------------------------------------------------ testReactApp
\* The library call an action awaits.  click, fill and wait pass the
\* action's timeout; textContent and getAttribute are called without one.
ActionCall(act) ==
  LET timeout == IF IsSome(act.timeout) THEN Val(act.timeout) ELSE DefaultActionTimeout
  IN  CASE act.type = "click" -> Call("click", act.selector, None, Some(timeout))
        [] act.type = "fill" -> Call("fill", act.selector, act.value, Some(timeout))
        [] act.type = "wait" -> Call("waitForSelector", act.selector, None, Some(timeout))
        [] act.type = "screenshot" -> Call("screenshot", None, None, None)
        [] act.type = "getText" -> Call("textContent", act.selector, None, None)
        [] act.type = "getAttribute" -> Call("getAttribute", act.selector, act.value, None)

\* Variant: an action of an unknown kind is recorded and ends the loop.
RunLoopStops(k, actions, i) ==
  IF i > Len(actions)
  THEN Finally([k EXCEPT !.idx = i], Some(TestReport(k.results)), None)
  ELSE IF actions[i] = None
  THEN Finally([k EXCEPT !.idx = i], None, Some("TypeError: cannot destructure action"))
  ELSE LET act == Val(actions[i])
       IN  IF act.type \in AwaitedKinds
           THEN [k EXCEPT !.pc = "act", !.idx = i, !.call = Some(ActionCall(act))]
           ELSE Finally([k EXCEPT !.idx = i + 1, !.results = Append(@, UnknownLine(act.type))],
                        Some(TestReport(Append(k.results, UnknownLine(act.type)))), None)

\* The for loop from position i up to its next await: an action of an
\* unknown kind is recorded without awaiting anything and the loop goes on;
\* destructuring an element that is null raises outside the action's try.
RECURSIVE RunLoop(_, _, _)
RunLoop(k, actions, i) ==
  IF i > Len(actions)
  THEN Finally([k EXCEPT !.idx = i], Some(TestReport(k.results)), None)
  ELSE IF actions[i] = None
  THEN Finally([k EXCEPT !.idx = i], None, Some("TypeError: cannot destructure action"))
  ELSE LET act == Val(actions[i])
       IN  IF act.type \in AwaitedKinds
           THEN [k EXCEPT !.pc = "act", !.idx = i, !.call = Some(ActionCall(act))]
           ELSE RunLoop([k EXCEPT !.results = Append(@, UnknownLine(act.type))],
                        actions, i + 1)

\* Variant: a failed navigation is recorded like a failed action and the
\* loop runs all the same.
AfterGotoTestRecorded(k, actions, st) ==
  LET k1 == [k EXCEPT !.results =
               <<IF st = "raised"
                 THEN Line("fail", "Failed", "navigate", None, None, ErrMsg("goto"), None)
                 ELSE NavLine(Url)>>]
  IN  IF actions = None
      THEN Finally(k1, None, Some("TypeError: actions is not iterable"))
      ELSE RunLoop(k1, Val(actions), 1)

\* After a successful navigation: the navigation line, then the loop.
\* `for (... of actions)` raises when actions is missing.
AfterGotoTest(k, actions, st) ==
  IF st = "raised" THEN Finally(k, None, Some(ErrMsg("goto")))
  ELSE LET k1 == [k EXCEPT !.results = <<NavLine(Url)>>]
       IN  IF actions = None
           THEN Finally(k1, None, Some("TypeError: actions is not iterable"))
           ELSE RunLoop(k1, Val(actions), 1)

\* Variant: the outcome line is put in front of the results.
AfterActionUnshift(k, actions, line) ==
  RunLoop([k EXCEPT !.results = <<line>> \o @], actions, k.idx + 1)

\* The outcome line of the action that was awaited, and the rest of the loop.
AfterAction(k, actions, line) ==
  RunLoop([k EXCEPT !.results = Append(@, line)], actions, k.idx + 1)

\* Variant: a failed action is recorded and attempted again.
ActionCatchRetry(k, actions, act, msg) ==
  RunLoop([k EXCEPT !.results = Append(@, FailedLine(act, msg))], actions, k.idx)

\* Variant: no try around the action, its error leaves the loop.
ActionCatchAbort(k, actions, act, msg) == Finally(k, None, Some(msg))

\* catch (actionError): the failure is recorded and the loop goes on.
ActionCatch(k, actions, act, msg) == AfterAction(k, actions, FailedLine(act, msg))

ReactPath(t) == [dir |-> "/tmp/react-test-", t |-> t]
ScrapePath(t) == [dir |-> "/tmp/screenshot-", t |-> t]

\* ------------------------------------------------------------- actions
Init ==
  /\ pc = [r \in Reqs |-> "idle"]
  /\ req = [r \in Reqs |-> [name |-> "", args |-> None]]
  /\ browser = [r \in Reqs |-> "none"]
  /\ dom = [r \in Reqs |-> {}]
  /\ idx = [r \in Reqs |-> 0]
  /\ results = [r \in Reqs |-> <<>>]
  /\ ret = [r \in Reqs |-> None]
  /\ exc = [r \in Reqs |-> None]
  /\ response = [r \in Reqs |-> None]
  /\ faulted = [r \in Reqs |-> FALSE]
  /\ calls = [r \in Reqs |-> <<>>]
  /\ t0 = [r \in Reqs |-> 0]
  /\ elapsed = [r \in Reqs |-> 0]
  /\ now = 0
  /\ writes = <<>>

\* The handler is invoked with a tool name and arguments.
\* Variant: requests are queued, one is dispatched when no other is in
\* flight.
CallToolWithQueued(r, rq) ==
  /\ pc[r] = "idle"
  /\ \A q \in Reqs \ {r} : pc[q] \in {"idle", "done"}
  /\ req' = Set(req, r, rq)
  /\ Apply(r, "", Dispatch(Locals(r), rq.name, rq.args))
  /\ UNCHANGED <<browser, dom, t0, elapsed, now, writes>>

\* The handler is entered with one request and runs up to its first await.
CallToolWith(r, rq) ==
  /\ pc[r] = "idle"
  /\ req' = Set(req, r, rq)
  /\ Apply(r, "", Dispatch(Locals(r), rq.name, rq.args))
  /\ UNCHANGED <<browser, dom, t0, elapsed, now, writes>>

UnknownNames == {"bogus_tool", "scrape"}

CallTool(r) ==
  \E name \in ToolNames \cup UnknownNames :
    \E a \in ArgsOf(name) : CallToolWith(r, [name |-> name, args |-> a])

ResumeLaunch(r) ==
  /\ pc[r] = "launch"
  /\ \E st \in Outcomes(Last(calls[r]), dom[r]) :
       /\ browser' = IF st = "returned" THEN Set(browser, r, "open") ELSE browser
       /\ Apply(r, st, AfterLaunch(Locals(r), st))
  /\ UNCHANGED <<req, dom, t0, elapsed, now, writes>>

\* getPageInfo reads the clock (startTime) between newPage and goto.
ResumeNewPage(r) ==
  /\ pc[r] = "newPage"
  /\ \E st \in Outcomes(Last(calls[r]), dom[r]) :
       /\ Apply(r, st, AfterNewPage(Locals(r), st))
       /\ IF st = "returned" /\ req[r].name = "get_page_info"
          THEN \E t \in ClockReads : now' = t /\ t0' = Set(t0, r, t)
          ELSE UNCHANGED <<now, t0>>
  /\ UNCHANGED <<req, browser, dom, elapsed, writes>>

GotoTest(r) ==
  /\ pc[r] = "goto"
  /\ req[r].name = "test_react_app"
  /\ \E st \in Outcomes(Last(calls[r]), dom[r]) :
       /\ Apply(r, st, AfterGotoTest(Locals(r), Args(r).actions, st))
       /\ IF st = "returned" THEN \E d \in DomChoices : dom' = Set(dom, r, d)
          ELSE UNCHANGED dom
  /\ UNCHANGED <<req, browser, t0, elapsed, now, writes>>

\* One iteration of the loop resumes from the action's await.  A
\* screenshot that was captured is then named after the clock and written.
ResumeAct(r) ==
  /\ pc[r] = "act"
  /\ LET actions == Val(Args(r).actions)
         act == Val(actions[idx[r]])
         c == Last(calls[r])
     IN  \E st \in Outcomes(c, dom[r]) :
           /\ dom' = Set(dom, r, DomAfter(c, dom[r], st))
           /\ IF st = "raised"
              THEN /\ Apply(r, st, ActionCatch(Locals(r), actions, act, ErrMsg(c.fn)))
                   /\ UNCHANGED <<now, writes>>
              ELSE IF act.type = "screenshot"
              THEN \E t \in ClockReads : \E written \in BOOLEAN :
                     /\ now' = t
                     /\ writes' = IF written THEN Append(writes, ReactPath(t)) ELSE writes
                     /\ Apply(r, st,
                           IF written
                           THEN AfterAction(Locals(r), actions, SuccessLine(act, ReactPath(t)))
                           ELSE ActionCatch(Locals(r), actions, act, "require is not defined"))
              ELSE /\ Apply(r, st, AfterAction(Locals(r), actions, SuccessLine(act, None)))
                   /\ UNCHANGED <<now, writes>>
  /\ UNCHANGED <<req, browser, t0, elapsed>>

\* --------------------------------------------------------- scrapePage
Truthy(o) == IsSome(o) /\ Len(Val(o)) > 0

\* if (waitFor) { if (waitFor.match(/^\d+$/)) waitForTimeout(parseInt(waitFor))
\*                else waitForSelector(waitFor, { timeout: 10000 }) }
WaitForCall(w) ==
  IF IsDigitString(w)
  THEN Call("waitForTimeout", None, None, Some(ParseInt(w)))
  ELSE Call("waitForSelector", Some(w), None, Some(ScrapeWaitTimeout))

\* Text extraction: every match of the selector when one is given,
\* otherwise the body.
Extract(k, a) ==
  IF Truthy(a.selector)
  THEN [k EXCEPT !.pc = "queryAll", !.call = Some(Call("$$", a.selector, None, None))]
  ELSE [k EXCEPT !.pc = "content",
                 !.call = Some(Call("textContent", Some(Body), None, None))]

\* Variant: the text is extracted without waiting for the condition.
AfterGotoScrapeNoWait(k, a, st) ==
  IF st = "raised" THEN Finally(k, None, Some(ErrMsg("goto")))
  ELSE Extract(k, a)

AfterGotoScrape(k, a, st) ==
  IF st = "raised" THEN Finally(k, None, Some(ErrMsg("goto")))
  ELSE IF Truthy(a.waitFor)
  THEN [k EXCEPT !.pc = "waitFor", !.call = Some(WaitForCall(Val(a.waitFor)))]
  ELSE Extract(k, a)

AfterWaitFor(k, a, st) ==
  IF st = "raised" THEN Finally(k, None, Some(ErrMsg("waitForSelector")))
  ELSE Extract(k, a)

\* elements.map(el => el.textContent()) under Promise.all.
AfterQueryAll(k, st) ==
  IF st = "raised" THEN Finally(k, None, Some(ErrMsg("$$")))
  ELSE [k EXCEPT !.pc = "content", !.call = Some(Call("Promise.all", None, None, None))]

ScrapedItem(a, d) ==
  TextItem("Scraped content from",
    IF Truthy(a.selector)
    THEN IF Val(a.selector) \in d
         THEN <<Line("info", "content", "", a.selector, None, TextOf(a.selector), None)>>
         ELSE <<>>
    ELSE <<Line("info", "content", "", None, None, TextOf(Some(Body)), None)>>)

ScreenshotItem(path) ==
  TextItem("Screenshot saved to",
    <<Line("info", "path", "", None, None, path.dir, Some(path.t))>>)

\* The result is built from the content; a requested screenshot is
\* captured after it, otherwise the result is returned.
AfterContent(k, a, d, st) ==
  IF st = "raised" THEN Finally(k, None, Some(ErrMsg("textContent")))
  ELSE LET k1 == [k EXCEPT !.ret = Some(Report(<<ScrapedItem(a, d)>>))]
       IN  IF a.screenshot
           THEN [k1 EXCEPT !.pc = "shot", !.call = Some(Call("screenshot", None, None, None))]
           ELSE Finally(k1, k1.ret, None)

\* Variant: a screenshot that fails is left out and the text is returned.
AfterShotKeepsText(k, st, written, path) ==
  IF st = "raised" \/ ~written THEN Finally(k, k.ret, None)
  ELSE Finally(k, Some(Report(Append(Val(k.ret).content, ScreenshotItem(path)))), None)

\* The path is pushed onto the result once the file is written.
AfterShot(k, st, written, path) ==
  IF st = "raised" THEN Finally(k, None, Some(ErrMsg("screenshot")))
  ELSE IF ~written THEN Finally(k, None, Some("require is not defined"))
  ELSE Finally(k, Some(Report(Append(Val(k.ret).content, ScreenshotItem(path)))), None)

GotoScrape(r) ==
  /\ pc[r] = "goto"
  /\ req[r].name = "scrape_page"
  /\ \E st \in Outcomes(Last(calls[r]), dom[r]) :
       /\ Apply(r, st, AfterGotoScrape(Locals(r), Args(r), st))
       /\ IF st = "returned" THEN \E d \in DomChoices : dom' = Set(dom, r, d)
          ELSE UNCHANGED dom
  /\ UNCHANGED <<req, browser, t0, elapsed, now, writes>>

ResumeWaitFor(r) ==
  /\ pc[r] = "waitFor"
  /\ LET c == Last(calls[r])
     IN  \E st \in Outcomes(c, dom[r]) :
           /\ dom' = Set(dom, r, DomAfter(c, dom[r], st))
           /\ Apply(r, st, AfterWaitFor(Locals(r), Args(r), st))
  /\ UNCHANGED <<req, browser, t0, elapsed, now, writes>>

ResumeQueryAll(r) ==
  /\ pc[r] = "queryAll"
  /\ \E st \in Outcomes(Last(calls[r]), dom[r]) :
       Apply(r, st, AfterQueryAll(Locals(r), st))
  /\ UNCHANGED <<req, browser, dom, t0, elapsed, now, writes>>

ResumeContent(r) ==
  /\ pc[r] = "content"
  /\ \E st \in Outcomes(Last(calls[r]), dom[r]) :
       Apply(r, st, AfterContent(Locals(r), Args(r), dom[r], st))
  /\ UNCHANGED <<req, browser, dom, t0, elapsed, now, writes>>

ResumeShot(r) ==
  /\ pc[r] = "shot"
  /\ \E st \in Outcomes(Last(calls[r]), dom[r]) :
       IF st = "raised"
       THEN /\ Apply(r, st, AfterShot(Locals(r), st, FALSE, ScrapePath(now)))
            /\ UNCHANGED <<now, writes>>
       ELSE \E t \in ClockReads : \E written \in BOOLEAN :
              /\ now' = t
              /\ writes' = IF written THEN Append(writes, ScrapePath(t)) ELSE writes
              /\ Apply(r, st, AfterShot(Locals(r), st, written, ScrapePath(t)))
  /\ UNCHANGED <<req, browser, dom, t0, elapsed>>

\* -------------------------------------------------------- getPageInfo
\* What the first page.evaluate reads from the document, as the report
\* prints it: title, address, the two lists and the three counts.
StructLines ==
  <<Line("info", "Title", "", None, None, "title", None),
    Line("info", "URL", "", None, None, Url, None),
    Line("info", "Meta Tags", "", None, None, "meta", None),
    Line("info", "Headings", "", None, None, "headings", None),
    Line("info", "Links", "", None, None, "", Some(0)),
    Line("info", "Images", "", None, None, "", Some(0)),
    Line("info", "Forms", "", None, None, "", Some(0))>>

InfoItem(perf) == TextItem("Page Information for", StructLines \o perf)

\* The performance block: load time and the navigation entry's two
\* durations, then the two paint timings, 'N/A' when the browser has none.
PerfLines(loadTime, fp, fcp) ==
  <<Line("info", "Page Load Time", "", None, None, "ms", Some(loadTime)),
    Line("info", "DOM Content Loaded", "", None, None, "ms", Some(0)),
    Line("info", "Load Complete", "", None, None, "ms", Some(0)),
    Line("info", "First Paint", "", None, None, IF IsSome(fp) THEN "ms" ELSE "N/A", fp),
    Line("info", "First Contentful Paint", "", None, None,
         IF IsSome(fcp) THEN "ms" ELSE "N/A", fcp)>>

AfterGotoInfo(k, st) ==
  IF st = "raised" THEN Finally(k, None, Some(ErrMsg("goto")))
  ELSE [k EXCEPT !.pc = "evalInfo", !.call = Some(Call("evaluate", None, Some("info"), None))]

\* Variant: the metrics are read whether or not they were asked for.
AfterEvalInfoAlwaysMetrics(k, a, st) ==
  IF st = "raised" THEN Finally(k, None, Some(ErrMsg("evaluate")))
  ELSE [k EXCEPT !.pc = "evalPerf",
                 !.call = Some(Call("evaluate", None, Some("metrics"), None))]

\* `if (includePerformance)`: an argument left out is undefined, falsy.
AfterEvalInfo(k, a, st) ==
  IF st = "raised" THEN Finally(k, None, Some(ErrMsg("evaluate")))
  ELSE IF IsSome(a.includePerformance) /\ Val(a.includePerformance)
  THEN [k EXCEPT !.pc = "evalPerf",
                 !.call = Some(Call("evaluate", None, Some("metrics"), None))]
  ELSE Finally(k, Some(Report(<<InfoItem(<<>>)>>)), None)

\* Inside the page: perf = performance.getEntriesByType('navigation')[0];
\* reading a field of a missing entry raises, and evaluate rejects.
NavEntryError == "TypeError: cannot read domContentLoadedEventEnd of undefined"

AfterEvalPerf(k, st, navEntry, loadTime, fp, fcp) ==
  IF st = "raised" THEN Finally(k, None, Some(ErrMsg("evaluate")))
  ELSE IF ~navEntry THEN Finally(k, None, Some(NavEntryError))
  ELSE Finally(k, Some(Report(<<InfoItem(PerfLines(loadTime, fp, fcp))>>)), None)

GotoInfo(r) ==
  /\ pc[r] = "goto"
  /\ req[r].name = "get_page_info"
  /\ \E st \in Outcomes(Last(calls[r]), dom[r]) :
       /\ Apply(r, st, AfterGotoInfo(Locals(r), st))
       /\ IF st = "returned"
          THEN /\ \E d \in DomChoices : dom' = Set(dom, r, d)
               /\ \E t \in ClockReads : now' = t /\ elapsed' = Set(elapsed, r, t - t0[r])
          ELSE UNCHANGED <<dom, now, elapsed>>
  /\ UNCHANGED <<req, browser, t0, writes>>

ResumeEvalInfo(r) ==
  /\ pc[r] = "evalInfo"
  /\ \E st \in Outcomes(Last(calls[r]), dom[r]) :
       Apply(r, st, AfterEvalInfo(Locals(r), Args(r), st))
  /\ UNCHANGED <<req, browser, dom, t0, elapsed, now, writes>>

ResumeEvalPerf(r) ==
  /\ pc[r] = "evalPerf"
  /\ \E st \in Outcomes(Last(calls[r]), dom[r]) :
       \E navEntry \in BOOLEAN : \E fp \in {None, Some(1)} : \E fcp \in {None, Some(1)} :
         Apply(r, IF navEntry THEN st ELSE "raised",
               AfterEvalPerf(Locals(r), st, navEntry, elapsed[r], fp, fcp))
  /\ UNCHANGED <<req, browser, dom, t0, elapsed, now, writes>>

\* ----------------------------------------------------- waitForElement
\* Variant: the selector is sniffed like scrapePage's waitFor.
WaitCallDiscriminated(a) ==
  IF IsSome(a.selector) /\ IsDigitString(Val(a.selector))
  THEN Call("waitForTimeout", None, None, Some(ParseInt(Val(a.selector))))
  ELSE Call("waitForSelector", a.selector, None,
            Some(IF IsSome(a.timeout) THEN Val(a.timeout) ELSE DefaultWaitTimeout))

\* page.waitForSelector(selector, { timeout }), timeout = 10000 by default.
WaitCall(a) ==
  Call("waitForSelector", a.selector, None,
       Some(IF IsSome(a.timeout) THEN Val(a.timeout) ELSE DefaultWaitTimeout))

AfterGotoWait(k, a, st) ==
  IF st = "raised" THEN Finally(k, None, Some(ErrMsg("goto")))
  ELSE [k EXCEPT !.pc = "waitSel", !.call = Some(WaitCall(a))]

AfterWaitSel(k, a, st) ==
  IF st = "raised" THEN Finally(k, None, Some(ErrMsg("waitForSelector")))
  ELSE [k EXCEPT !.pc = "query", !.call = Some(Call("$", a.selector, None, None))]

\* element = await page.$(selector) is null when nothing matches any more,
\* and element.textContent() of null raises.
AfterQuery(k, a, st, found) ==
  IF st = "raised" THEN Finally(k, None, Some(ErrMsg("$")))
  ELSE IF ~found THEN Finally(k, None, Some("TypeError: cannot read textContent of null"))
  ELSE [k EXCEPT !.pc = "elText", !.call = Some(Call("el.textContent", a.selector, None, None))]

AfterElText(k, a, st) ==
  IF st = "raised" THEN Finally(k, None, Some(ErrMsg("el.textContent")))
  ELSE [k EXCEPT !.pc = "elVisible", !.call = Some(Call("el.isVisible", a.selector, None, None))]

FoundItem(a, waitTime, visible) ==
  TextItem("Element found",
    <<Line("ok", "Element found", "", a.selector, None, "", None),
      Line("info", "Wait time", "", None, None, "ms", Some(waitTime)),
      Line("info", "Visible", "", None, None, IF visible THEN "true" ELSE "false", None),
      Line("info", "Text content", "", None, None, TextOf(a.selector), None)>>)

AfterElVisible(k, a, st, waitTime, visible) ==
  IF st = "raised" THEN Finally(k, None, Some(ErrMsg("el.isVisible")))
  ELSE Finally(k, Some(Report(<<FoundItem(a, waitTime, visible)>>)), None)

\* startTime is read after the navigation.
GotoWait(r) ==
  /\ pc[r] = "goto"
  /\ req[r].name = "wait_for_element"
  /\ \E st \in Outcomes(Last(calls[r]), dom[r]) :
       /\ Apply(r, st, AfterGotoWait(Locals(r), Args(r), st))
       /\ IF st = "returned"
          THEN /\ \E d \in DomChoices : dom' = Set(dom, r, d)
               /\ \E t \in ClockReads : now' = t /\ t0' = Set(t0, r, t)
          ELSE UNCHANGED <<dom, now, t0>>
  /\ UNCHANGED <<req, browser, elapsed, writes>>

\* waitTime is read when the wait returns.
ResumeWaitSel(r) ==
  /\ pc[r] = "waitSel"
  /\ LET c == Last(calls[r])
     IN  \E st \in Outcomes(c, dom[r]) :
           /\ dom' = Set(dom, r, DomAfter(c, dom[r], st))
           /\ Apply(r, st, AfterWaitSel(Locals(r), Args(r), st))
           /\ IF st = "returned"
              THEN \E t \in ClockReads : now' = t /\ elapsed' = Set(elapsed, r, t - t0[r])
              ELSE UNCHANGED <<now, elapsed>>
  /\ UNCHANGED <<req, browser, t0, writes>>

\* The page may have dropped the element between the wait and the query.
ResumeQuery(r) ==
  /\ pc[r] = "query"
  /\ \E st \in Outcomes(Last(calls[r]), dom[r]) : \E found \in BOOLEAN :
       /\ dom' = Set(dom, r, IF st = "returned" /\ ~found
                              THEN dom[r] \ {Val(Args(r).selector)} ELSE dom[r])
       /\ Apply(r, st, AfterQuery(Locals(r), Args(r), st, found))
  /\ UNCHANGED <<req, browser, t0, elapsed, now, writes>>

ResumeElText(r) ==
  /\ pc[r] = "elText"
  /\ \E st \in Outcomes(Last(calls[r]), dom[r]) :
       Apply(r, st, AfterElText(Locals(r), Args(r), st))
  /\ UNCHANGED <<req, browser, dom, t0, elapsed, now, writes>>

ResumeElVisible(r) ==
  /\ pc[r] = "elVisible"
  /\ \E st \in Outcomes(Last(calls[r]), dom[r]) : \E visible \in BOOLEAN :
       Apply(r, st, AfterElVisible(Locals(r), Args(r), st, elapsed[r], visible))
  /\ UNCHANGED <<req, browser, dom, t0, elapsed, now, writes>>

\* ------------------------------------------------------------ release
ResumeClose(r) ==
  /\ pc[r] = "close"
  /\ \E st \in Outcomes(Last(calls[r]), dom[r]) :
       /\ browser' = IF st = "returned" THEN Set(browser, r, "closed") ELSE browser
       /\ Apply(r, st, AfterClose(Locals(r), st))
  /\ UNCHANGED <<req, dom, t0, elapsed, now, writes>>

Step(r) ==
  \/ CallTool(r)
  \/ ResumeLaunch(r)
  \/ ResumeNewPage(r)
  \/ GotoScrape(r)
  \/ ResumeWaitFor(r)
  \/ ResumeQueryAll(r)
  \/ ResumeContent(r)
  \/ ResumeShot(r)
  \/ GotoTest(r)
  \/ ResumeAct(r)
  \/ GotoInfo(r)
  \/ ResumeEvalInfo(r)
  \/ ResumeEvalPerf(r)
  \/ GotoWait(r)
  \/ ResumeWaitSel(r)
  \/ ResumeQuery(r)
  \/ ResumeElText(r)
  \/ ResumeElVisible(r)
  \/ ResumeClose(r)

\* One request at a time.
Next == Step(1)

Spec == Init /\ [][Next]_vars

\* ------------------------------------------------- concurrent requests
\* The handler is async and holds no lock: a second request is dispatched
\* while the first is suspended at an await, and their steps interleave.
\* The requests of the interleaved runs are a few of each tool.
ConcActionLists ==
  {<<Some(Action("click", Some(SelA), None, None)),
     Some(Action("screenshot", None, None, None))>>}

ConcRequests ==
  {[name |-> "test_react_app", args |-> Some([NoArgs EXCEPT !.actions = Some(l)])] :
      l \in ConcActionLists}
  \cup {[name |-> "scrape_page",
         args |-> Some([NoArgs EXCEPT !.waitFor = Some(<<"1">>), !.selector = Some(SelA),
                                      !.screenshot = TRUE])],
        [name |-> "scrape_page", args |-> Some([NoArgs EXCEPT !.waitFor = Some(SelA)])],
        [name |-> "get_page_info",
         args |-> Some([NoArgs EXCEPT !.includePerformance = Some(TRUE)])],
        [name |-> "wait_for_element", args |-> Some([NoArgs EXCEPT !.selector = Some(SelA)])]}

CallToolConc(r) == \E rq \in ConcRequests : CallToolWith(r, rq)

StepConc(r) ==
  \/ CallToolConc(r)
  \/ ResumeLaunch(r)
  \/ ResumeNewPage(r)
  \/ GotoScrape(r)
  \/ ResumeWaitFor(r)
  \/ ResumeQueryAll(r)
  \/ ResumeContent(r)
  \/ ResumeShot(r)
  \/ GotoTest(r)
  \/ ResumeAct(r)
  \/ GotoInfo(r)
  \/ ResumeEvalInfo(r)
  \/ ResumeEvalPerf(r)
  \/ GotoWait(r)
  \/ ResumeWaitSel(r)
  \/ ResumeQuery(r)
  \/ ResumeElText(r)
  \/ ResumeElVisible(r)
  \/ ResumeClose(r)

NextConc == \E r \in Reqs : StepConc(r)

SpecConc == Init /\ [][NextConc]_vars

\* ------------------------------------------------------------ progress
\* One request, drawn from the requests of the interleaved runs and from
\* the ones that end early or meet an element they cannot process.
LiveActionLists ==
  {<<Some(Action("hover", Some(SelA), None, None)),
     Some(Action("fill", Some(SelA), None, None))>>,
   <<Some(Action("getText", Some(SelA), None, None)), None>>,
   <<>>}

LiveRequests ==
  ConcRequests
  \cup {[name |-> "test_react_app", args |-> Some([NoArgs EXCEPT !.actions = Some(l)])] :
          l \in LiveActionLists}
  \cup {[name |-> "test_react_app", args |-> Some(NoArgs)],
        [name |-> "bogus_tool", args |-> Some(NoArgs)],
        [name |-> "scrape_page", args |-> None],
        [name |-> "get_page_info", args |-> Some([NoArgs EXCEPT !.browser = Some("netscape")])],
        [name |-> "wait_for_element",
         args |-> Some([NoArgs EXCEPT !.selector = Some(<<"1">>),
                                      !.timeout = Some(CallerTimeout)])]}

CallToolLive(r) == \E rq \in LiveRequests : CallToolWith(r, rq)

Resume(r) ==
  \/ ResumeLaunch(r)
  \/ ResumeNewPage(r)
  \/ GotoScrape(r)
  \/ ResumeWaitFor(r)
  \/ ResumeQueryAll(r)
  \/ ResumeContent(r)
  \/ ResumeShot(r)
  \/ GotoTest(r)
  \/ ResumeAct(r)
  \/ GotoInfo(r)
  \/ ResumeEvalInfo(r)
  \/ ResumeEvalPerf(r)
  \/ GotoWait(r)
  \/ ResumeWaitSel(r)
  \/ ResumeQuery(r)
  \/ ResumeElText(r)
  \/ ResumeElVisible(r)
  \/ ResumeClose(r)

NextLive == CallToolLive(1) \/ Resume(1)

\* Every library call that is pending eventually returns or raises, so a
\* request that can take a step eventually takes one.
SpecLive == Init /\ [][NextLive]_vars /\ WF_vars(NextLive)

\* ===================================================================
\* Properties
\* ===================================================================
CallsWith(r, fns, sts) ==
  {p \in 1..Len(calls[r]) : calls[r][p].fn \in fns /\ calls[r][p].status \in sts}

\* Browsers started for r, and close calls that came back (either way).
Launched(r) == Cardinality(CallsWith(r, {"launch"}, {"returned"}))
CloseCalls(r) == Cardinality(CallsWith(r, {"close"}, {"returned", "raised"}))

Named(r, name) == req[r].name = name /\ IsSome(req[r].args)
\* The navigation is the third library call of every operation.
NavOk(r) == Len(calls[r]) >= 3 /\ calls[r][3].status = "returned"

IsTest(r) == Named(r, "test_react_app") /\ IsSome(Args(r).actions)
ActionsOf(r) == Val(Args(r).actions)
WellFormedList(l) == \A i \in 1..Len(l) : l[i] # None

\* Position of the first null element of a list, Len + 1 when it has none.
FirstNull(l) ==
  IF WellFormedList(l) THEN Len(l) + 1
  ELSE CHOOSE i \in 1..Len(l) : l[i] = None /\ \A j \in 1..(i - 1) : l[j] # None

IsAwaited(l, i) == l[i] # None /\ Val(l[i]).type \in AwaitedKinds

\* The positions of the list whose action awaits a library call, in order,
\* up to the first null element.
RECURSIVE AwaitedFrom(_, _)
AwaitedFrom(l, i) ==
  IF i >= FirstNull(l) THEN <<>>
  ELSE (IF IsAwaited(l, i) THEN <<i>> ELSE <<>>) \o AwaitedFrom(l, i + 1)
AwaitedIdx(l) == AwaitedFrom(l, 1)

WriteError == "require is not defined"

\* -------------------------------------------------------------------
\* C1: every browser launched for a request is closed exactly once before
\* the response is returned, on every exit path: once a request has its
\* response, as many close calls were made as browsers were launched.
C1_ReleasedOnEveryExit ==
  \A r \in Reqs : pc[r] = "done" => CloseCalls(r) = Launched(r)

\* -------------------------------------------------------------------
\* C2: test_react_app whose navigation succeeded answers a list of N
\* well-formed actions with a report of exactly N + 1 outcome lines.
C2_OneEntryPerAction ==
  \A r \in Reqs :
    (IsTest(r) /\ pc[r] = "done" /\ NavOk(r) /\ WellFormedList(ActionsOf(r)))
      => /\ IsSome(response[r])
         /\ ~Val(response[r]).isError
         /\ Len(Val(response[r]).content[1].lines) = Len(ActionsOf(r)) + 1

\* -------------------------------------------------------------------
\* C3: an action whose library call raised, or whose screenshot could not
\* be written, is recorded at its own position as a failed line carrying
\* the error's message, the error never becomes the operation's pending
\* error, and the action after it is processed: it is recorded, or it is
\* the one being awaited, unless that next element is itself null.
NextProcessed(r, i) ==
  LET l == ActionsOf(r)
  IN  i < Len(l) =>
        \/ Len(results[r]) >= i + 2
        \/ /\ pc[r] = "act" /\ idx[r] = i + 1
           /\ Last(calls[r]) = ActionCall(Val(l[i + 1]))
        \/ l[i + 1] = None

C3_FailureIsolated ==
  \A r \in Reqs :
    (IsTest(r) /\ NavOk(r)) =>
      LET l == ActionsOf(r)
          aw == AwaitedIdx(l)
      IN  /\ \A j \in 1..Len(aw) :
                LET p == 3 + j
                    i == aw[j]
                IN  (p <= Len(calls[r]) /\ calls[r][p].status = "raised")
                      => /\ Len(results[r]) >= i + 1
                         /\ results[r][i + 1] = FailedLine(Val(l[i]), ErrMsg(calls[r][p].fn))
                         /\ results[r][i + 1].detail # ""
                         /\ NextProcessed(r, i)
          /\ \A i \in 1..(Len(results[r]) - 1) :
                results[r][i + 1].what = "Failed" => NextProcessed(r, i)
          /\ exc[r] \in {None, Some("TypeError: cannot destructure action"),
                         Some("TypeError: actions is not iterable")}

C3_Witness ==
  \E r \in Reqs :
    /\ IsTest(r) /\ NavOk(r) /\ Len(results[r]) >= 3
    /\ results[r][2].what = "Failed"
    /\ results[r][2].detail = "Timeout exceeded"
    /\ results[r][3].marker = "ok"

\* -------------------------------------------------------------------
\* C4: the actions are processed in input order, one at a time: the
\* library calls after the navigation are those of the awaiting actions
\* in list order, only the last call of the log can be pending, the call
\* of an action is issued only when every action before it is recorded,
\* line k + 1 of the results is the outcome of action k, and a report
\* that is returned holds the results in that order.
LinesFor(act) ==
  IF act.type \notin AwaitedKinds THEN {UnknownLine(act.type)}
  ELSE {SuccessLine(act, ReactPath(t)) : t \in 0..MaxTime}
       \cup {FailedLine(act, m) : m \in {"Timeout exceeded", "screenshot failed", WriteError}}

C4_InputOrder ==
  \A r \in Reqs :
    (IsTest(r) /\ NavOk(r)) =>
      LET l == ActionsOf(r)
          aw == AwaitedIdx(l)
          n == Len(results[r]) - 1
      IN  /\ results[r][1] = NavLine(Url)
          /\ n <= Len(l)
          /\ \A k \in 1..n : l[k] # None /\ results[r][k + 1] \in LinesFor(Val(l[k]))
          /\ \A p \in 1..(Len(calls[r]) - 1) : calls[r][p].status # "pending"
          /\ \A p \in 4..Len(calls[r]) :
               calls[r][p].fn # "close" =>
                 /\ p - 3 <= Len(aw)
                 /\ [calls[r][p] EXCEPT !.status = "pending"] = ActionCall(Val(l[aw[p - 3]]))
                 /\ IF calls[r][p].status = "pending"
                    THEN n = aw[p - 3] - 1 ELSE n >= aw[p - 3]
          /\ (pc[r] = "done" /\ ~Val(response[r]).isError)
               => /\ Val(response[r]).content[1].lines = results[r]
                  /\ n = Len(l)

C4_Witness ==
  \E r \in Reqs :
    /\ IsTest(r) /\ pc[r] = "done" /\ ~Val(response[r]).isError
    /\ Len(ActionsOf(r)) = 2
    /\ Val(ActionsOf(r)[1]).type = "fill" /\ Val(ActionsOf(r)[2]).type = "click"
    /\ Val(response[r]).content[1].lines[2].what = "Filled"
    /\ Val(response[r]).content[1].lines[3].what = "Clicked"

\* -------------------------------------------------------------------
\* C5: an action of a kind outside the six known ones, once the loop has
\* reached its position, has a failed line naming the kind at that
\* position, caused no library call (the calls after the navigation are
\* exactly those of the awaiting actions processed so far), and the action
\* after it is processed.
C5_UnknownKindRecorded ==
  \A r \in Reqs :
    (IsTest(r) /\ NavOk(r)) =>
      LET l == ActionsOf(r)
      IN  /\ \A i \in 1..Len(l) :
                (l[i] # None /\ Val(l[i]).type \notin AwaitedKinds /\ Len(results[r]) >= i)
                  => /\ Len(results[r]) >= i + 1
                     /\ results[r][i + 1] = UnknownLine(Val(l[i]).type)
                     /\ results[r][i + 1].marker = "fail"
                     /\ NextProcessed(r, i)
          /\ Cardinality({p \in 4..Len(calls[r]) : calls[r][p].fn # "close"})
               = Cardinality({j \in 1..Len(l) :
                                IsAwaited(l, j) /\ j < FirstNull(l) /\ j <= idx[r]})

C5_Witness ==
  \E r \in Reqs :
    /\ IsTest(r) /\ NavOk(r) /\ Len(ActionsOf(r)) = 2
    /\ ActionsOf(r)[1] # None /\ Val(ActionsOf(r)[1]).type = "hover"
    /\ Len(results[r]) = 3
    /\ results[r][2].what = "Unknown action type"
    /\ results[r][3].what = "Clicked"
    /\ Len(calls[r]) = 5

\* -------------------------------------------------------------------
\* C6: a test_react_app request with a fill action that has no value is
\* rejected before any browser is launched.
HasFillWithoutValue(l) ==
  \E i \in 1..Len(l) :
    l[i] # None /\ Val(l[i]).type = "fill" /\ Val(l[i]).value = None

C6_ValidatedBeforeLaunch ==
  \A r \in Reqs :
    (IsTest(r) /\ HasFillWithoutValue(ActionsOf(r)))
      => /\ Launched(r) = 0
         /\ pc[r] = "done" => Val(response[r]).isError

\* -------------------------------------------------------------------
\* C7: no exception escapes the tool-call handler; every request that is
\* answered has a report whose content is a non-empty list of text
\* entries; and when an error left the operation after its browser was
\* launched (page creation, navigation, a wait, extraction or screenshot
\* of the single operations, a malformed action list, close), the report
\* is the error report.
OperationRaised(r) ==
  \/ IsSome(exc[r])
  \/ CallsWith(r, {"newPage", "close"}, {"raised"}) # {}

WellFormedReport(resp) ==
  /\ Len(resp.content) >= 1
  /\ \A i \in 1..Len(resp.content) : resp.content[i].type = "text"

IsErrorReport(resp) ==
  /\ resp.isError
  /\ Len(resp.content) = 1
  /\ resp.content[1].title = "Error"
  /\ Len(resp.content[1].lines) = 1
  /\ resp.content[1].lines[1].detail # ""

C7_AlwaysAReport ==
  \A r \in Reqs :
    /\ ~faulted[r]
    /\ pc[r] = "done" =>
         /\ IsSome(response[r])
         /\ WellFormedReport(Val(response[r]))
         /\ (Launched(r) = 1 /\ OperationRaised(r)) => IsErrorReport(Val(response[r]))

C7_Witness ==
  \E r \in Reqs :
    /\ pc[r] = "done" /\ Launched(r) = 1
    /\ IsTest(r) /\ ~WellFormedList(ActionsOf(r))
    /\ IsSome(exc[r])
    /\ IsErrorReport(Val(response[r]))

\* -------------------------------------------------------------------
\* C8: when the operation body completed with a result and closing the
\* browser then fails, the caller still receives the body's result.
C8_CloseFailureNotRaised ==
  \A r \in Reqs :
    (pc[r] = "done" /\ IsSome(ret[r]) /\ exc[r] = None) => response[r] = ret[r]

\* -------------------------------------------------------------------
\* C9: a request of one of the four operations that names an engine
\* outside {chromium, firefox, webkit} is answered at once with an error
\* report: no library call is issued (no launch, no navigation, no
\* action), no browser exists, and nothing of a report was built.
BadEngine(r) ==
  /\ req[r].name \in ToolNames /\ IsSome(req[r].args)
  /\ IsSome(Args(r).browser) /\ Val(Args(r).browser) \notin {"chromium", "firefox", "webkit"}

C9_UnknownEngineFails ==
  \A r \in Reqs :
    BadEngine(r) =>
      /\ pc[r] = "done"
      /\ calls[r] = <<>>
      /\ browser[r] = "none"
      /\ results[r] = <<>> /\ ret[r] = None
      /\ IsErrorReport(Val(response[r]))

C9_Witness ==
  \E r \in Reqs :
    /\ BadEngine(r) /\ req[r].name = "test_react_app"
    /\ IsSome(Args(r).actions) /\ Len(ActionsOf(r)) = 2
    /\ pc[r] = "done" /\ Val(response[r]).isError

\* -------------------------------------------------------------------
\* C10: in scrape_page, after the navigation, a non-empty waitFor made
\* only of digits is a waitForTimeout of its decimal value that never
\* raises whatever the page holds and is followed by the extraction; any
\* other non-empty waitFor is a waitForSelector of that very string with
\* a 10000 ms deadline, which returns only when the locator is present
\* and, when it is not, raises and fails the operation without extracting.
OnlyDigits(w) == \A i \in 1..Len(w) : w[i] \in {"0", "1"}

C10_WaitForDiscriminated ==
  \A r \in Reqs :
    (Named(r, "scrape_page") /\ NavOk(r) /\ Truthy(Args(r).waitFor)) =>
      LET w == Val(Args(r).waitFor)
          c == calls[r][4]
      IN  /\ Len(calls[r]) >= 4
          /\ IF OnlyDigits(w)
             THEN /\ c.fn = "waitForTimeout" /\ c.ms = Some(ParseInt(w)) /\ c.sel = None
                  /\ c.status # "raised"
                  /\ c.status = "returned" =>
                       /\ Len(calls[r]) >= 5
                       /\ calls[r][5].fn \in {"$$", "textContent"}
             ELSE /\ c.fn = "waitForSelector" /\ c.sel = Some(w) /\ c.ms = Some(10000)
                  /\ c.status = "returned" =>
                       /\ w \in dom[r]
                       /\ calls[r][5].fn \in {"$$", "textContent"}
                  /\ c.status = "raised" =>
                       /\ w \notin dom[r]
                       /\ exc[r] = Some("Timeout exceeded")
                       /\ calls[r][5].fn = "close"
                       /\ pc[r] = "done" => IsErrorReport(Val(response[r]))

C10_Witness ==
  \E r \in Reqs :
    /\ Named(r, "scrape_page") /\ Args(r).waitFor = Some(<<"1", "0">>)
    /\ dom[r] = {}
    /\ Len(calls[r]) >= 5
    /\ calls[r][4].ms = Some(10) /\ calls[r][4].status = "returned"
    /\ calls[r][5].fn = "textContent"

\* -------------------------------------------------------------------
\* C11 (as claimed): wait_for_element given a selector made only of
\* digits never fails for want of an element: its wait does not raise.
IsWait(r) == Named(r, "wait_for_element")
DigitSelector(r) ==
  /\ IsSome(Args(r).selector)
  /\ Len(Val(Args(r).selector)) > 0
  /\ OnlyDigits(Val(Args(r).selector))

C11_DigitWaitNeverFails ==
  \A r \in Reqs :
    (IsWait(r) /\ DigitSelector(r) /\ Len(calls[r]) >= 4) => calls[r][4].status # "raised"

\* C11 (amended): wait_for_element never sniffs its selector: after the
\* navigation it always issues waitForSelector with the selector as given
\* and the requested deadline, also for a selector made only of digits;
\* such a selector matches no element, so the wait raises and the request
\* is answered with the error report.
C11_SelectorAlwaysLocator ==
  \A r \in Reqs :
    (IsWait(r) /\ NavOk(r)) =>
      /\ Len(calls[r]) >= 4
      /\ calls[r][4].fn = "waitForSelector"
      /\ calls[r][4].sel = Args(r).selector
      /\ \A p \in 1..Len(calls[r]) : calls[r][p].fn # "waitForTimeout"
      /\ DigitSelector(r) =>
           /\ calls[r][4].status # "returned"
           /\ calls[r][4].status = "raised" => exc[r] = Some("Timeout exceeded")
           /\ pc[r] = "done" => IsErrorReport(Val(response[r]))

C11_Witness ==
  \E r \in Reqs :
    /\ IsWait(r) /\ Args(r).selector = Some(<<"1", "0">>)
    /\ dom[r] = {SelA}
    /\ Len(calls[r]) = 5 /\ calls[r][4].status = "raised" /\ calls[r][5].status = "returned"
    /\ pc[r] = "done" /\ IsErrorReport(Val(response[r]))

\* -------------------------------------------------------------------
\* C12: when wait_for_element waits for a locator that never appears, the
\* wait was given the requested deadline (10000 ms by default), nothing
\* else is attempted on the page, the browser's close is awaited next, and
\* the finished request is answered with the timeout error and nothing
\* else.
RequestedTimeout(r) ==
  IF IsSome(Args(r).timeout) THEN Val(Args(r).timeout) ELSE DefaultWaitTimeout

NeverAppeared(r) ==
  /\ IsWait(r) /\ NavOk(r)
  /\ IsSome(Args(r).selector) /\ Val(Args(r).selector) \in Selectors
  /\ Len(calls[r]) >= 4
  /\ calls[r][4].status = "raised"

C12_TimeoutIsWholeResult ==
  \A r \in Reqs :
    NeverAppeared(r) =>
      /\ calls[r][4].fn = "waitForSelector"
      /\ calls[r][4].ms = Some(RequestedTimeout(r))
      /\ Len(calls[r]) = 5
      /\ calls[r][5].fn = "close"
      /\ pc[r] = "done" =>
           /\ calls[r][5].status # "pending"
           /\ response[r] = Some(ErrorReport("Timeout exceeded"))

\* -------------------------------------------------------------------
\* C13: a get_page_info request that did not ask for performance (false or
\* left out) never reads the metrics and its report has no performance
\* line; every report of get_page_info, with or without performance, has
\* the title, the URL, the meta tags, the headings and the three counts.
IsInfo(r) == Named(r, "get_page_info")
WantsPerformance(r) ==
  IsSome(Args(r).includePerformance) /\ Val(Args(r).includePerformance)

PerfFields ==
  {"Page Load Time", "DOM Content Loaded", "Load Complete", "First Paint",
   "First Contentful Paint"}
StructFields == {"Title", "URL", "Meta Tags", "Headings", "Links", "Images", "Forms"}

Reported(r) == pc[r] = "done" /\ IsSome(response[r]) /\ ~Val(response[r]).isError
FieldsOf(r) ==
  LET ls == Val(response[r]).content[1].lines
  IN  {ls[i].what : i \in 1..Len(ls)}

C13_PerformanceOnlyOnRequest ==
  \A r \in Reqs :
    IsInfo(r) =>
      /\ ~WantsPerformance(r) =>
           \A p \in 1..Len(calls[r]) :
             ~(calls[r][p].fn = "evaluate" /\ calls[r][p].val = Some("metrics"))
      /\ Reported(r) =>
           /\ Len(Val(response[r]).content) = 1
           /\ StructFields \subseteq FieldsOf(r)
           /\ ~WantsPerformance(r) => FieldsOf(r) \cap PerfFields = {}

C13_Witness ==
  \E r \in Reqs :
    /\ IsInfo(r) /\ Args(r).includePerformance = None
    /\ Reported(r)
    /\ FieldsOf(r) = StructFields

\* -------------------------------------------------------------------
\* C14: a get_page_info request that asked for performance never fails
\* because the browser lacks a metric: no such request ends its operation
\* with the error of reading a missing navigation entry, and once the
\* metrics were read the request is not answered with that error.
C14_MissingMetricsTolerated ==
  \A r \in Reqs :
    (IsInfo(r) /\ WantsPerformance(r)) =>
      /\ exc[r] # Some(NavEntryError)
      /\ pc[r] = "done" => response[r] # Some(ErrorReport(NavEntryError))

\* -------------------------------------------------------------------
\* C15: every element-targeting action of a sequence (click, fill, wait,
\* getText, getAttribute) is bounded by its own timeout, 5000 ms when it
\* gives none: the library call awaited for it carries that deadline.
ElementKinds == {"click", "fill", "wait", "getText", "getAttribute"}
OwnTimeout(act) ==
  IF IsSome(act.timeout) THEN Val(act.timeout) ELSE DefaultActionTimeout

C15_OwnTimeout ==
  \A r \in Reqs :
    (IsTest(r) /\ NavOk(r)) =>
      LET l == ActionsOf(r)
          at == AwaitedIdx(l)
      IN  \A j \in 1..Len(at) :
            (Len(calls[r]) >= 3 + j /\ Val(l[at[j]]).type \in ElementKinds) =>
              calls[r][3 + j].ms = Some(OwnTimeout(Val(l[at[j]])))

\* -------------------------------------------------------------------
\* C16: concurrently processed requests share no mutable state.  Every
\* request that works on a page launched its own browser and created its
\* own page, a browser is closed only by a close call of its own request,
\* only run_action_sequence requests hold outcomes, and under every
\* interleaving a step of one request leaves the other request's browser,
\* page, outcome list, call log and response as they were.
OwnSession ==
  \A r \in Reqs :
    /\ Len(calls[r]) >= 3 =>
         /\ calls[r][1].fn = "launch" /\ calls[r][1].status = "returned"
         /\ calls[r][2].fn = "newPage" /\ calls[r][2].status = "returned"
    /\ Launched(r) <= 1
    /\ browser[r] = "closed" => CallsWith(r, {"close"}, {"returned"}) # {}
    /\ browser[r] = "open" => Launched(r) = 1
    /\ results[r] # <<>> => IsTest(r)

OwnStep ==
  \A r \in Reqs :
    (calls'[r] # calls[r] \/ pc'[r] # pc[r]) =>
      \A q \in Reqs \ {r} :
        /\ pc'[q] = pc[q] /\ req'[q] = req[q]
        /\ browser'[q] = browser[q] /\ dom'[q] = dom[q]
        /\ results'[q] = results[q] /\ idx'[q] = idx[q]
        /\ ret'[q] = ret[q] /\ exc'[q] = exc[q]
        /\ response'[q] = response[q] /\ calls'[q] = calls[q]
        /\ t0'[q] = t0[q] /\ elapsed'[q] = elapsed[q]

C16_NoSharedState == []OwnSession /\ [][OwnStep]_vars

C16_Witness ==
  /\ IsTest(1) /\ pc[1] = "done" /\ Reported(1) /\ browser[1] = "closed"
  /\ Len(results[1]) = 3
  /\ IsTest(2) /\ pc[2] = "act" /\ browser[2] = "open"
  /\ Len(results[2]) = 2

SessionFns == {"launch", "newPage", "close"}

C18_LiveSession ==
  \A r \in Reqs :
    /\ \A p \in 1..Len(calls[r]) :
         /\ calls[r][p].fn \notin SessionFns =>
              /\ p >= 3
              /\ calls[r][1].fn = "launch" /\ calls[r][1].status = "returned"
              /\ calls[r][2].fn = "newPage" /\ calls[r][2].status = "returned"
              /\ \A q \in 1..p : calls[r][q].fn # "close"
              /\ calls[r][p].status = "pending" => browser[r] = "open"
         /\ calls[r][p].fn = "close" => p = Len(calls[r])
    /\ (IsTest(r) /\ CallsWith(r, {"close"}, {"pending", "returned", "raised"}) # {}) =>
         \/ IsSome(exc[r])
         \/ /\ Len(results[r]) = Len(ActionsOf(r)) + 1
            /\ ret[r] = Some(TestReport(results[r]))

C18_Witness ==
  \E r \in Reqs :
    /\ IsTest(r) /\ Len(ActionsOf(r)) = 2 /\ WellFormedList(ActionsOf(r))
    /\ Len(calls[r]) = 6
    /\ calls[r][4].fn = "click" /\ calls[r][5].fn = "fill"
    /\ calls[r][6].fn = "close" /\ calls[r][6].status = "returned"
    /\ browser[r] = "closed" /\ exc[r] = None /\ Len(results[r]) = 3

\* -------------------------------------------------------------------
\* C19: a navigation failure is the failure of the whole operation.  Once
\* the navigation raised, the only call that follows is the browser's
\* close: no action, wait or extraction is attempted; nothing is
\* recorded as an outcome and no report is pending; the operation's error
\* is the navigation's; and the finished request has awaited close and
\* is answered with an error report.
NavFailed(r) == Len(calls[r]) >= 3 /\ calls[r][3].fn = "goto" /\ calls[r][3].status = "raised"

C19_NavigationFailureIsFatal ==
  \A r \in Reqs :
    NavFailed(r) =>
      /\ Len(calls[r]) = 4
      /\ calls[r][4].fn = "close"
      /\ results[r] = <<>>
      /\ ret[r] = None
      /\ exc[r] = Some("navigation failed")
      /\ pc[r] \in {"close", "done"}
      /\ pc[r] = "done" =>
           /\ calls[r][4].status # "pending"
           /\ IsErrorReport(Val(response[r]))
           /\ calls[r][4].status = "returned" => browser[r] = "closed"

C19_Witness ==
  \E r \in Reqs :
    /\ IsTest(r) /\ Len(ActionsOf(r)) = 2 /\ WellFormedList(ActionsOf(r))
    /\ NavFailed(r)
    /\ pc[r] = "done" /\ browser[r] = "closed"
    /\ response[r] = Some(ErrorReport("navigation failed"))

\* -------------------------------------------------------------------
\* C20: a wait in one request does not stall the others.  While a request
\* is suspended in a fixed-duration wait, a locator wait or an action, any
\* other request that has not finished can take its next step: an arriving
\* one is dispatched, a dispatched one resumes from its own await.
Suspended(r) ==
  /\ pc[r] \in {"waitFor", "waitSel", "act"}
  /\ Last(calls[r]).status = "pending"

C20_WaitDoesNotStall ==
  \A r \in Reqs : \A q \in Reqs \ {r} :
    (Suspended(r) /\ pc[q] # "done") =>
      /\ ENABLED StepConc(q)
      /\ pc[q] = "idle" => ENABLED CallToolConc(q)

\* The first request is still in its fixed-duration wait when the second
\* has launched its own browser, run, closed it and returned its report.
C20_Witness ==
  /\ Named(1, "scrape_page") /\ pc[1] = "waitFor"
  /\ Last(calls[1]).fn = "waitForTimeout" /\ Last(calls[1]).status = "pending"
  /\ browser[1] = "open"
  /\ pc[2] = "done" /\ Reported(2) /\ browser[2] = "closed"

\* -------------------------------------------------------------------
\* C21: nothing is retried.  Within one test_react_app request the
\* navigation is called once, and the calls after it are those of the
\* awaiting actions at strictly increasing positions of the list, one call
\* per position, whether the call returned or raised.
AllStatus == {"pending", "returned", "raised"}

C21_AttemptedOnce ==
  \A r \in Reqs :
    Named(r, "test_react_app") =>
      /\ Cardinality(CallsWith(r, {"goto"}, AllStatus)) <= 1
      /\ Cardinality(CallsWith(r, {"launch"}, AllStatus)) <= 1
      /\ Cardinality(CallsWith(r, {"close"}, AllStatus)) <= 1
      /\ (IsTest(r) /\ NavOk(r)) =>
           LET l == ActionsOf(r)
               at == AwaitedIdx(l)
           IN  /\ \A p \in 4..Len(calls[r]) :
                    calls[r][p].fn # "close" =>
                      /\ p - 3 <= Len(at)
                      /\ [calls[r][p] EXCEPT !.status = "pending"]
                           = ActionCall(Val(l[at[p - 3]]))
                      /\ calls[r][p].status = "pending" => idx[r] = at[p - 3]
               /\ \A i, j \in 1..Len(at) : i < j => at[i] < at[j]

C21_Witness ==
  \E r \in Reqs :
    /\ IsTest(r) /\ Len(ActionsOf(r)) = 2
    /\ Len(calls[r]) = 6
    /\ calls[r][4].fn = "click" /\ calls[r][4].status = "raised"
    /\ calls[r][5].fn = "fill" /\ calls[r][5].status = "raised"
    /\ pc[r] = "done" /\ Reported(r)

\* -------------------------------------------------------------------
\* C22: every outcome line of a test_react_app request has one of the two
\* markers and the marker tells what happened.  The line of an action
\* whose call raised is a failure line with the action's kind and the
\* error's message; the line of an action whose call returned is a success
\* line, except a screenshot whose file could not be written, which is a
\* failure line with that error, and a screenshot's success line names a
\* path that was written; the line of an unknown kind is a failure line
\* naming the kind.
Markers == {"ok", "fail"}

\* Position in the call log of the call awaited for list position i.
CallPos(l, i) == 3 + Cardinality({j \in 1..i : IsAwaited(l, j)})

MarkerMatches(r, i) ==
  LET l == ActionsOf(r)
      act == Val(l[i])
      line == results[r][i + 1]
      c == calls[r][CallPos(l, i)]
  IN  IF act.type \notin AwaitedKinds
      THEN line.marker = "fail" /\ line.what = "Unknown action type" /\ line.type = act.type
      ELSE /\ c.status \in {"returned", "raised"}
           /\ c.status = "raised" =>
                /\ line.marker = "fail" /\ line.what = "Failed"
                /\ line.type = act.type /\ line.detail = ErrMsg(c.fn)
           /\ (c.status = "returned" /\ act.type # "screenshot") =>
                line.marker = "ok" /\ line.what # "Failed"
           /\ (c.status = "returned" /\ act.type = "screenshot") =>
                \/ /\ line.marker = "ok" /\ line.what = "Screenshot saved"
                   /\ \E w \in 1..Len(writes) :
                        writes[w] = [dir |-> line.detail, t |-> Val(line.stamp)]
                \/ /\ line.marker = "fail" /\ line.what = "Failed"
                   /\ line.type = act.type /\ line.detail = WriteError

C22_MarkerMatchesOutcome ==
  \A r \in Reqs :
    (IsTest(r) /\ NavOk(r)) =>
      /\ \A n \in 1..Len(results[r]) : results[r][n].marker \in Markers
      /\ results[r][1].marker = "ok"
      /\ \A i \in 1..(Len(results[r]) - 1) :
           /\ i <= Len(ActionsOf(r)) /\ ActionsOf(r)[i] # None
           /\ MarkerMatches(r, i)
      /\ Reported(r) => Val(response[r]).content[1].lines = results[r]

C22_Witness ==
  \E r \in Reqs :
    /\ IsTest(r) /\ Reported(r) /\ Len(ActionsOf(r)) = 2
    /\ Val(ActionsOf(r)[1]).type = "click" /\ Val(ActionsOf(r)[2]).type = "screenshot"
    /\ calls[r][4].status = "raised" /\ calls[r][5].status = "returned"
    /\ Val(response[r]).content[1].lines[2].marker = "fail"
    /\ Val(response[r]).content[1].lines[3].marker = "ok"

\* -------------------------------------------------------------------
\* C23: scrape_page runs its steps in one order in one session: launch,
\* page, navigation, the wait when one is given, the extraction (every
\* match of the locator when one is given, otherwise the body), the
\* screenshot when requested, then close.  The calls made so far are the
\* beginning of that plan, each step is started only after the step
\* before it returned, and close ends the log.
IsScrape(r) == Named(r, "scrape_page")

ScrapePlan(a) ==
  <<"launch", "newPage", "goto">>
  \o (IF IsSome(a.waitFor) /\ Len(Val(a.waitFor)) > 0
      THEN <<IF OnlyDigits(Val(a.waitFor)) THEN "waitForTimeout" ELSE "waitForSelector">>
      ELSE <<>>)
  \o (IF IsSome(a.selector) /\ Len(Val(a.selector)) > 0
      THEN <<"$$", "Promise.all">> ELSE <<"textContent">>)
  \o (IF a.screenshot THEN <<"screenshot">> ELSE <<>>)

\* The calls of r before its close call, if it has one.
StepsOf(r) ==
  IF Len(calls[r]) > 0 /\ Last(calls[r]).fn = "close"
  THEN SubSeq(calls[r], 1, Len(calls[r]) - 1) ELSE calls[r]

C23_FixedOrder ==
  \A r \in Reqs :
    IsScrape(r) =>
      LET plan == ScrapePlan(Args(r))
          done == StepsOf(r)
      IN  /\ Len(done) <= Len(plan)
          /\ \A p \in 1..Len(done) :
               /\ done[p].fn = plan[p]
               /\ p < Len(done) => done[p].status = "returned"
          /\ (Len(calls[r]) > Len(done)) =>
               /\ Len(done) >= 2
               /\ Last(done).status = "raised" \/ Len(done) = Len(plan)
               /\ Last(done).status # "pending"
          /\ Reported(r) =>
               /\ Len(done) = Len(plan)
               /\ \A p \in 1..Len(done) : done[p].status = "returned"

C23_Witness ==
  \E r \in Reqs :
    /\ IsScrape(r) /\ Reported(r)
    /\ Len(calls[r]) = 8
    /\ calls[r][4].fn = "waitForTimeout" /\ calls[r][5].fn = "$$"
    /\ calls[r][7].fn = "screenshot" /\ calls[r][8].fn = "close"
    /\ Len(Val(response[r]).content) = 2

\* -------------------------------------------------------------------
\* C24: in wait_for_element, once the wait for the locator returned, the
\* read-back cannot turn the request into an error, even when the page
\* changes between the wait and the read-back: a finished request none of
\* whose library calls raised is answered with the found report, which
\* has the wait time, the visibility and the text of the element.
WaitSucceeded(r) ==
  /\ IsWait(r) /\ NavOk(r)
  /\ Len(calls[r]) >= 4
  /\ calls[r][4].fn = "waitForSelector" /\ calls[r][4].status = "returned"

FoundFields == {"Element found", "Wait time", "Visible", "Text content"}

C24_ReadBackCannotFail ==
  \A r \in Reqs :
    (/\ WaitSucceeded(r) /\ pc[r] = "done"
     /\ \A p \in 1..Len(calls[r]) : calls[r][p].status = "returned") =>
      /\ ~Val(response[r]).isError
      /\ FieldsOf(r) = FoundFields

\* -------------------------------------------------------------------
\* C25: every request produces exactly one report.  A request that was
\* dispatched reaches its end, whatever the operation and the action list;
\* a request at its end has a response (a result or an error report) and
\* did not fault; a request not at its end has none; and a response, once
\* given, is never replaced.
OneAtDone ==
  \A r \in Reqs :
    /\ pc[r] = "done" <=> IsSome(response[r])
    /\ ~faulted[r]
    /\ IsSome(response[r]) => Val(response[r]).isError \in BOOLEAN

ResponseKept ==
  \A r \in Reqs : IsSome(response[r]) => response'[r] = response[r] /\ pc'[r] = "done"

C25_ExactlyOneReport ==
  /\ []OneAtDone
  /\ [][ResponseKept]_vars
  /\ \A r \in Reqs : (pc[r] # "idle") ~> (pc[r] = "done")

C25_Witness ==
  \E r \in Reqs :
    /\ IsTest(r) /\ Len(ActionsOf(r)) = 2 /\ WellFormedList(ActionsOf(r))
    /\ pc[r] = "done" /\ IsSome(response[r])
    /\ Len(calls[r]) = 6 /\ calls[r][4].fn = "click" /\ calls[r][5].fn = "screenshot"
    /\ calls[r][6].fn = "close"
    /\ ~faulted[r]

\* -------------------------------------------------------------------
\* C26: isolation covers reading the action's own fields.  A list with an
\* element that is not an action object (null) still gets its report once
\* the navigation succeeded and the browser closed: one line per element,
\* a failure line at the position of each such element, and the actions
\* after it attempted and recorded.
C26_MalformedElementIsolated ==
  \A r \in Reqs :
    (/\ IsTest(r) /\ NavOk(r) /\ ~WellFormedList(ActionsOf(r))
     /\ pc[r] = "done"
     /\ Last(calls[r]).fn = "close" /\ Last(calls[r]).status = "returned") =>
      /\ Reported(r)
      /\ Len(Val(response[r]).content[1].lines) = Len(ActionsOf(r)) + 1
      /\ \A i \in 1..Len(ActionsOf(r)) :
           ActionsOf(r)[i] = None => Val(response[r]).content[1].lines[i + 1].marker = "fail"

\* -------------------------------------------------------------------
\* C27: a tool call whose name is none of scrape_page, test_react_app,
\* get_page_info, wait_for_element is answered at once with an error
\* report that names the unknown tool, whatever its arguments, and no
\* browser is launched for it.
KnownTools == {"scrape_page", "test_react_app", "get_page_info", "wait_for_element"}

C27_UnknownToolRejected ==
  \A r \in Reqs :
    (pc[r] # "idle" /\ req[r].name \notin KnownTools) =>
      /\ pc[r] = "done"
      /\ calls[r] = <<>> /\ browser[r] = "none"
      /\ IsErrorReport(Val(response[r]))
      /\ Val(response[r]).content[1].lines[1].detail = "Unknown tool"
      /\ Val(response[r]).content[1].lines[1].type = req[r].name

C27_Witness ==
  \E r \in Reqs :
    /\ req[r] = [name |-> "scrape", args |-> Some(NoArgs)]
    /\ pc[r] = "done" /\ Launched(r) = 0
    /\ Val(response[r]).content[1].lines[1].type = "scrape"

\* -------------------------------------------------------------------
\* C28: scrape_page is all-or-nothing.  When a step on the page raised
\* (the navigation, the wait, the extraction, the screenshot or the write
\* of its file), the operation has a pending error, the finished request
\* has awaited close and is answered with an error report alone, with
\* none of the extracted text.  A report with the text is returned only
\* when every call returned and, if a screenshot was requested, its file
\* was written and its path is in the report.
StepRaised(r) ==
  \/ \E p \in 3..Len(calls[r]) :
       calls[r][p].fn \notin SessionFns /\ calls[r][p].status = "raised"
  \/ exc[r] = Some(WriteError)

HasText(resp) ==
  \E i \in 1..Len(resp.content) : resp.content[i].title = "Scraped content from"

C28_AllOrNothing ==
  \A r \in Reqs :
    IsScrape(r) =>
      /\ StepRaised(r) =>
           /\ IsSome(exc[r])
           /\ pc[r] \in {"close", "done"}
           /\ Last(calls[r]).fn = "close"
           /\ pc[r] = "done" =>
                /\ Last(calls[r]).status # "pending"
                /\ IsErrorReport(Val(response[r]))
                /\ ~HasText(Val(response[r]))
      /\ (pc[r] = "done" /\ HasText(Val(response[r]))) =>
           /\ ~Val(response[r]).isError
           /\ \A p \in 1..Len(calls[r]) : calls[r][p].status = "returned"
           /\ browser[r] = "closed"
           /\ Len(Val(response[r]).content) = (IF Args(r).screenshot THEN 2 ELSE 1)
           /\ Args(r).screenshot =>
                LET ln == Val(response[r]).content[2].lines[1]
                IN  \E w \in 1..Len(writes) : writes[w] = [dir |-> ln.detail, t |-> Val(ln.stamp)]

C28_Witness ==
  \E r \in Reqs :
    /\ IsScrape(r) /\ Args(r).screenshot
    /\ Len(calls[r]) >= 6
    /\ calls[r][Len(calls[r]) - 1].fn = "screenshot"
    /\ calls[r][Len(calls[r]) - 1].status = "raised"
    /\ calls[r][Len(calls[r]) - 2].fn \in {"textContent", "Promise.all"}
    /\ calls[r][Len(calls[r]) - 2].status = "returned"
    /\ pc[r] = "done" /\ browser[r] = "closed"
    /\ response[r] = Some(ErrorReport("screenshot failed"))

====
